---------------------------- MODULE Spec2Model ----------------------------
(***************************************************************************)
(* Model of the C lexical analyser of Compiladores/analisador_lexico_c.py. *)
(*                                                                         *)
(* The source text is a sequence of one-character strings.  Offsets are    *)
(* 0-based as in the code: the character at offset p is s[p + 1].  Every   *)
(* pattern of the table is an operator that returns the end offset of its  *)
(* match at offset p, or -1 when it does not match there, following the    *)
(* backtracking semantics of Python's re module.  One action models one    *)
(* branch of the loop body of AnalisadorLexico.analisar.                   *)
(***************************************************************************)
EXTENDS Integers, Sequences, FiniteSets, TLC

(***************************************************************************)
(* Bounds of the checked inputs.                                           *)
(***************************************************************************)
MaxLen == 3
MaxLenOp == 3
MaxLenNum == 5
MaxLenId == 6
MaxLenCom == 5
MaxLenLit == 4
MaxLenJusto == 3

(***************************************************************************)
(* Character classes of the regular expressions.                           *)
(***************************************************************************)
Digitos == {"0", "1", "2", "3", "4", "5", "6", "7", "8", "9"}

Letras ==
    {"a", "b", "c", "d", "e", "f", "g", "h", "i", "j", "k", "l", "m",
     "n", "o", "p", "q", "r", "s", "t", "u", "v", "w", "x", "y", "z",
     "A", "B", "C", "D", "E", "F", "G", "H", "I", "J", "K", "L", "M",
     "N", "O", "P", "Q", "R", "S", "T", "U", "V", "W", "X", "Y", "Z", "_"}

\* [ \t]
EspacoHorizontal == {" ", "\t"}

\* \s of the re module, and the characters str.strip() removes
EspacoBranco == {" ", "\t", "\n", "\r", "\f"}

PALAVRAS_RESERVADAS ==
  { <<"a","u","t","o">>, <<"b","r","e","a","k">>, <<"c","a","s","e">>,
    <<"c","h","a","r">>, <<"c","o","n","s","t">>,
    <<"c","o","n","t","i","n","u","e">>, <<"d","e","f","a","u","l","t">>,
    <<"d","o">>, <<"d","o","u","b","l","e">>, <<"e","l","s","e">>,
    <<"e","n","u","m">>, <<"e","x","t","e","r","n">>,
    <<"f","l","o","a","t">>, <<"f","o","r">>, <<"g","o","t","o">>,
    <<"i","f">>, <<"i","n","l","i","n","e">>, <<"i","n","t">>,
    <<"l","o","n","g">>, <<"r","e","g","i","s","t","e","r">>,
    <<"r","e","s","t","r","i","c","t">>, <<"r","e","t","u","r","n">>,
    <<"s","h","o","r","t">>, <<"s","i","g","n","e","d">>,
    <<"s","i","z","e","o","f">>, <<"s","t","a","t","i","c">>,
    <<"s","t","r","u","c","t">>, <<"s","w","i","t","c","h">>,
    <<"t","y","p","e","d","e","f">>, <<"u","n","i","o","n">>,
    <<"u","n","s","i","g","n","e","d">>, <<"v","o","i","d">>,
    <<"v","o","l","a","t","i","l","e">>, <<"w","h","i","l","e">>,
    <<"_","B","o","o","l">>, <<"_","C","o","m","p","l","e","x">>,
    <<"_","I","m","a","g","i","n","a","r","y">> }

(***************************************************************************)
(* Helpers of the matcher.                                                 *)
(***************************************************************************)
\* the character at offset p, "" at and after the end of the text
Ch(s, p) == IF p >= 0 /\ p < Len(s) THEN s[p + 1] ELSE ""

\* greedy X* for a character class: the end of the longest run of C from p
Corrida(s, p, C) ==
    CHOOSE q \in p..Len(s) :
        /\ \A k \in p..(q - 1) : s[k + 1] \in C
        /\ Ch(s, q) \notin C

\* greedy [^...]* : the end of the longest run of characters outside C
CorridaFora(s, p, C) ==
    CHOOSE q \in p..Len(s) :
        /\ \A k \in p..(q - 1) : s[k + 1] \notin C
        /\ (q = Len(s) \/ s[q + 1] \in C)

\* the literal w stands at offset p of s
Prefixo(w, s, p) ==
    /\ p + Len(w) <= Len(s)
    /\ \A k \in 1..Len(w) : s[p + k] = w[k]

Menor(S) == CHOOSE x \in S : \A y \in S : x <= y

(***************************************************************************)
(* The patterns of the table, in the order of especificacao.               *)
(***************************************************************************)
\* [ \t]+
CasaESPACO(s, p) ==
    LET q == Corrida(s, p, EspacoHorizontal) IN IF q > p THEN q ELSE -1

\* \n
CasaNOVA_LINHA(s, p) == IF Ch(s, p) = "\n" THEN p + 1 ELSE -1

\* /\*(?:.|\n)*?\*/  : lazy, so it ends at the first closer
CasaCOMENTARIO_ML(s, p) ==
    LET fech == {j \in (p + 2)..(Len(s) - 2) : Prefixo(<<"*", "/">>, s, j)}
    IN  IF Prefixo(<<"/", "*">>, s, p) /\ fech # {}
        THEN Menor(fech) + 2
        ELSE -1

\* the pattern without its [^\n]* : only the two slashes
CasaCOMENTARIO_SL_curto(s, p) ==
    IF Prefixo(<<"/", "/">>, s, p) THEN p + 2 ELSE -1

\* //[^\n]*
CasaCOMENTARIO_SL(s, p) ==
    IF Prefixo(<<"/", "/">>, s, p)
    THEN CorridaFora(s, p + 2, {"\n"})
    ELSE -1

\* \#\s*[A-Za-z_][A-Za-z0-9_]*[^\n]*
\* \s* cannot give back a character: what it would give back is white space,
\* never the letter the pattern needs next.
CasaPREPROCESSADOR(s, p) ==
    LET q == Corrida(s, p + 1, EspacoBranco)
    IN  IF Ch(s, p) = "#" /\ Ch(s, q) \in Letras
        THEN CorridaFora(s, Corrida(s, q + 1, Letras \cup Digitos), {"\n"})
        ELSE -1

\* (\\.|[^q\\])* for the quote q: the end of the greedy repetition.  At a
\* backslash only the first alternative applies ("." is not a newline), at
\* any other character only the second one.
RECURSIVE CorpoLiteral(_, _, _)
CorpoLiteral(s, p, q) ==
    IF Ch(s, p) = "\\"
    THEN IF Ch(s, p + 1) \notin {"", "\n"}
         THEN CorpoLiteral(s, p + 2, q)
         ELSE p
    ELSE IF Ch(s, p) \notin {"", q}
         THEN CorpoLiteral(s, p + 1, q)
         ELSE p

\* "(\\.|[^"\\])*"
\* giving an item back leaves the cursor on a character that is not the
\* closing quote, so the greedy end is the only candidate.
CasaSTRING(s, p) ==
    LET q == CorpoLiteral(s, p + 1, "\"")
    IN  IF Ch(s, p) = "\"" /\ Ch(s, q) = "\"" THEN q + 1 ELSE -1

\* '(\\.|[^'\\])'
CasaCHAR(s, p) ==
    LET q == IF Ch(s, p + 1) = "\\"
             THEN IF Ch(s, p + 2) \notin {"", "\n"} THEN p + 3 ELSE -1
             ELSE IF Ch(s, p + 1) \notin {"", "'"} THEN p + 2 ELSE -1
    IN  IF Ch(s, p) = "'" /\ q >= 0 /\ Ch(s, q) = "'" THEN q + 1 ELSE -1

\* (?:\d+\.\d*|\.\d+)
Mantissa(s, p) ==
    LET d == Corrida(s, p, Digitos)
    IN  IF d > p /\ Ch(s, d) = "."
        THEN Corrida(s, d + 1, Digitos)
        ELSE IF Ch(s, p) = "." /\ Corrida(s, p + 1, Digitos) > p + 1
             THEN Corrida(s, p + 1, Digitos)
             ELSE -1

\* (?:[eE][+-]?\d+)? from offset p: the end of the exponent, p when absent
Expoente(s, p) ==
    LET x == IF Ch(s, p + 1) \in {"+", "-"} THEN p + 2 ELSE p + 1
        d == Corrida(s, x, Digitos)
    IN  IF Ch(s, p) \in {"e", "E"} /\ d > x THEN d ELSE p

\* (?:\d+\.\d*|\.\d+)(?:[eE][+-]?\d+)?[fFlL]?
CasaFLOAT(s, p) ==
    LET e == Mantissa(s, p)
        x == Expoente(s, e)
    IN  IF e < 0 THEN -1
        ELSE IF Ch(s, x) \in {"f", "F", "l", "L"} THEN x + 1 ELSE x

\* \d+(?:[uUlL])*
CasaINTEIRO(s, p) ==
    LET d == Corrida(s, p, Digitos)
    IN  IF d > p THEN Corrida(s, d, {"u", "U", "l", "L"}) ELSE -1

\* [A-Za-z_][A-Za-z0-9_]*
CasaID(s, p) ==
    IF Ch(s, p) \in Letras
    THEN Corrida(s, p + 1, Letras \cup Digitos)
    ELSE -1

\* the alternatives of the OPERADOR pattern, in the order they are written
OPERADORES ==
    << <<"+", "+">>, <<"-", "-">>, <<"=", "=">>, <<"!", "=">>,
       <<">", "=">>, <<"<", "=">>, <<"-", ">">>, <<"<", "<">>,
       <<">", ">">>, <<"&", "&">>, <<"|", "|">>, <<"+", "=">>,
       <<"-", "=">>, <<"*", "=">>, <<"/", "=">>, <<"%", "=">>,
       <<"&", "=">>, <<"|", "=">>, <<"^", "=">>,
       <<"<", "<", "=">>, <<">", ">", "=">> >>

\* (\+\+|--|...|<<=|>>=) : the first alternative that stands at p wins
CasaOPERADOR(s, p) ==
    LET ks == {k \in 1..Len(OPERADORES) : Prefixo(OPERADORES[k], s, p)}
    IN  IF ks = {} THEN -1 ELSE p + Len(OPERADORES[Menor(ks)])

\* [+\-*/%&|^~!<>=?:]
SIMBOLOS ==
    {"+", "-", "*", "/", "%", "&", "|", "^", "~", "!", "<", ">", "=",
     "?", ":"}

CasaOP_SIMBOLO(s, p) == IF Ch(s, p) \in SIMBOLOS THEN p + 1 ELSE -1

\* the single-character punctuators, each its own group
PONTUACAO ==
    [PONTO_VIRGULA |-> ";", VIRGULA |-> ",", PAR_ESQ |-> "(",
     PAR_DIR |-> ")", CHAVE_ESQ |-> "{", CHAVE_DIR |-> "}",
     COLCH_ESQ |-> "[", COLCH_DIR |-> "]", PONTO |-> "."]

CasaPontuacao(nome, s, p) == IF Ch(s, p) = PONTUACAO[nome] THEN p + 1 ELSE -1

\* .  (no DOTALL: every character but the newline)
CasaINVALIDO(s, p) == IF Ch(s, p) \notin {"", "\n"} THEN p + 1 ELSE -1

\* the table with INTEIRO declared before FLOAT
especificacao_trocada ==
    << "ESPACO", "NOVA_LINHA", "COMENTARIO_ML", "COMENTARIO_SL",
       "PREPROCESSADOR", "STRING", "CHAR", "INTEIRO", "FLOAT", "ID",
       "OPERADOR", "OP_SIMBOLO", "PONTO_VIRGULA", "VIRGULA", "PAR_ESQ",
       "PAR_DIR", "CHAVE_ESQ", "CHAVE_DIR", "COLCH_ESQ", "COLCH_DIR",
       "PONTO", "INVALIDO" >>

\* the names of the table, in declaration order
especificacao ==
    << "ESPACO", "NOVA_LINHA", "COMENTARIO_ML", "COMENTARIO_SL",
       "PREPROCESSADOR", "STRING", "CHAR", "FLOAT", "INTEIRO", "ID",
       "OPERADOR", "OP_SIMBOLO", "PONTO_VIRGULA", "VIRGULA", "PAR_ESQ",
       "PAR_DIR", "CHAVE_ESQ", "CHAVE_DIR", "COLCH_ESQ", "COLCH_DIR",
       "PONTO", "INVALIDO" >>

Casa(nome, s, p) ==
    CASE nome = "ESPACO" -> CasaESPACO(s, p)
      [] nome = "NOVA_LINHA" -> CasaNOVA_LINHA(s, p)
      [] nome = "COMENTARIO_ML" -> CasaCOMENTARIO_ML(s, p)
      [] nome = "COMENTARIO_SL" -> CasaCOMENTARIO_SL(s, p)
      [] nome = "PREPROCESSADOR" -> CasaPREPROCESSADOR(s, p)
      [] nome = "STRING" -> CasaSTRING(s, p)
      [] nome = "CHAR" -> CasaCHAR(s, p)
      [] nome = "FLOAT" -> CasaFLOAT(s, p)
      [] nome = "INTEIRO" -> CasaINTEIRO(s, p)
      [] nome = "ID" -> CasaID(s, p)
      [] nome = "OPERADOR" -> CasaOPERADOR(s, p)
      [] nome = "OP_SIMBOLO" -> CasaOP_SIMBOLO(s, p)
      [] nome = "INVALIDO" -> CasaINVALIDO(s, p)
      [] OTHER -> CasaPontuacao(nome, s, p)

SemCasamento == [tipo |-> "", ini |-> -1, fim |-> -1]

\* the alternatives of the master regex from the k-th on, tried in order at
\* offset p: the first group that matches there wins
RECURSIVE Alternativas(_, _, _)
Alternativas(s, p, k) ==
    IF k > Len(especificacao) THEN SemCasamento
    ELSE LET f == Casa(especificacao[k], s, p)
         IN  IF f >= 0
             THEN [tipo |-> especificacao[k], ini |-> p, fim |-> f]
             ELSE Alternativas(s, p, k + 1)

\* the master regex applied at offset p (m.lastgroup, m.start(), m.end())
regex_mestre(s, p) == Alternativas(s, p, 1)

\* the next match of finditer: the leftmost offset from p on where the
\* master regex matches
RECURSIVE finditer(_, _)
finditer(s, p) ==
    IF p >= Len(s) THEN SemCasamento
    ELSE LET r == regex_mestre(s, p)
         IN  IF r.tipo # "" THEN r ELSE finditer(s, p + 1)

(***************************************************************************)
(* str.split("\n") and str.strip() as _avancar and analisar use them.      *)
(***************************************************************************)
\* len(texto.split("\n"))
NumLinhas(texto) == 1 + Cardinality({k \in 1..Len(texto) : texto[k] = "\n"})

\* len(texto.split("\n")[-1])
TamUltima(texto) ==
    LET ns == {k \in 1..Len(texto) : texto[k] = "\n"}
    IN  IF ns = {} THEN Len(texto)
        ELSE Len(texto) - (CHOOSE k \in ns : \A j \in ns : j <= k)

\* removes every white space character, not only the surrounding ones
strip_tudo(texto) == SelectSeq(texto, LAMBDA c : c \notin EspacoBranco)

\* texto.strip()
strip(texto) ==
    LET ks == {k \in 1..Len(texto) : texto[k] \notin EspacoBranco}
    IN  IF ks = {} THEN <<>>
        ELSE SubSeq(texto, Menor(ks), CHOOSE k \in ks : \A j \in ks : j <= k)

(***************************************************************************)
(* The checked inputs.                                                     *)
(***************************************************************************)
Textos(A, n) == UNION {[1..k -> A] : k \in 0..n}

AlfaGeral ==
    {" ", "\n", "/", "*", "#", "d", "o", "\"", "'", "1", ".", ";", "@",
     "=", "<"}
AlfaOp == {"+", "-", "=", "!", ">", "<", "&", "|", "*", "/", "%", "^"}
AlfaNum == {"1", ".", "e", "-", "f", "u", "L"}
AlfaId == {"d", "o", "_", "1", " "}
AlfaCom == {"/", "*", "a", "\n", " ", "#"}
AlfaLit == {"\"", "'", "\\", "a", "\n", "/", "*"}
AlfaJusto == {" ", "\n", "/", "#", "a", "\"", "'", "1", ".", "@"}

Entradas ==
    Textos(AlfaGeral, MaxLen) \cup Textos(AlfaOp, MaxLenOp)
      \cup Textos(AlfaNum, MaxLenNum) \cup Textos(AlfaId, MaxLenId)
      \cup Textos(AlfaCom, MaxLenCom) \cup Textos(AlfaLit, MaxLenLit)

(***************************************************************************)
(* State.                                                                  *)
(***************************************************************************)
VARIABLES
    codigo,     \* self.codigo
    pos,        \* self.pos
    linha,      \* self.linha
    coluna,     \* self.coluna
    m,          \* the match of the current iteration of the loop
    tokens,     \* the tokens yielded so far
    erro,       \* the fields of the raised ErroLexico
    pc,         \* "run", "done" (generator exhausted) or "erro" (raised)
    hist        \* log of the iterations: the match, the cursor before it
                \* and the index in tokens of the token it yielded (0: none)

vars == <<codigo, pos, linha, coluna, m, tokens, erro, pc, hist>>

SemErro == [linha |-> 0, coluna |-> 0]

\* AnalisadorLexico(codigo): the state after __init__, with the first match
\* of the loop at hand
Construido(entradas) ==
    /\ codigo \in entradas
    /\ pos = 0
    /\ linha = 1
    /\ coluna = 1
    /\ m = finditer(codigo, 0)
    /\ tokens = <<>>
    /\ erro = SemErro
    /\ pc = "run"
    /\ hist = <<>>

Init == Construido(Entradas)

InitJusto == Construido(Textos(AlfaJusto, MaxLenJusto))

\* texto = m.group(tipo)
texto == SubSeq(codigo, m.ini + 1, m.fim)

\* _avancar with the column after a newline counted from 0
avancar_base0(t) ==
    [pos |-> pos + Len(t),
     linha |-> IF NumLinhas(t) = 1 THEN linha ELSE linha + NumLinhas(t) - 1,
     coluna |-> IF NumLinhas(t) = 1 THEN coluna + Len(t)
                ELSE TamUltima(t)]

\* AnalisadorLexico._avancar: the cursor after advancing over t
avancar(t) ==
    [pos |-> pos + Len(t),
     linha |-> IF NumLinhas(t) = 1 THEN linha ELSE linha + NumLinhas(t) - 1,
     coluna |-> IF NumLinhas(t) = 1 THEN coluna + Len(t)
                ELSE TamUltima(t) + 1]

\* self._avancar(texto), and the loop going on to the next match
Avanca(emitido) ==
    /\ pos' = avancar(texto).pos
    /\ linha' = avancar(texto).linha
    /\ coluna' = avancar(texto).coluna
    /\ m' = finditer(codigo, m.fim)
    /\ hist' = Append(hist, [tipo |-> m.tipo, ini |-> m.ini, fim |-> m.fim,
                             pos |-> pos, linha |-> linha,
                             coluna |-> coluna,
                             tok |-> IF emitido THEN Len(tokens) + 1 ELSE 0])
    /\ UNCHANGED codigo

\* Token(tipo, valor, self.linha, self.coluna) ... yield token
Token(tipo, valor) ==
    [tipo |-> tipo, valor |-> valor, linha |-> linha, coluna |-> coluna]

Emite(tipo, valor) ==
    /\ tokens' = Append(tokens, Token(tipo, valor))
    /\ Avanca(TRUE)
    /\ UNCHANGED <<erro, pc>>

Descarta ==
    /\ Avanca(FALSE)
    /\ UNCHANGED <<tokens, erro, pc>>

(***************************************************************************)
(* The branches of the loop body of analisar.                              *)
(***************************************************************************)
RamoESPACO == pc = "run" /\ m.tipo = "ESPACO" /\ Descarta

RamoNOVA_LINHA == pc = "run" /\ m.tipo = "NOVA_LINHA" /\ Descarta

RamoCOMENTARIO ==
    /\ pc = "run"
    /\ m.tipo \in {"COMENTARIO_ML", "COMENTARIO_SL"}
    /\ Descarta

RamoPREPROCESSADOR ==
    /\ pc = "run"
    /\ m.tipo = "PREPROCESSADOR"
    /\ Emite("PREPROCESSADOR", strip(texto))

RamoSTRING == pc = "run" /\ m.tipo = "STRING" /\ Emite("STRING", texto)

RamoCHAR == pc = "run" /\ m.tipo = "CHAR" /\ Emite("CHAR", texto)

RamoFLOAT == pc = "run" /\ m.tipo = "FLOAT" /\ Emite("FLOAT", texto)

RamoINTEIRO == pc = "run" /\ m.tipo = "INTEIRO" /\ Emite("INTEIRO", texto)

\* the reserved-word test done on a prefix of the text
tipo_token_prefixo(t) ==
    IF \E w \in PALAVRAS_RESERVADAS :
           Len(w) <= Len(t) /\ SubSeq(t, 1, Len(w)) = w
    THEN "PALAVRA_CHAVE" ELSE "ID"

\* "PALAVRA_CHAVE" if texto in PALAVRAS_RESERVADAS else "ID"
tipo_token(t) == IF t \in PALAVRAS_RESERVADAS THEN "PALAVRA_CHAVE" ELSE "ID"

RamoID == pc = "run" /\ m.tipo = "ID" /\ Emite(tipo_token(texto), texto)

RamoOPERADOR ==
    /\ pc = "run"
    /\ m.tipo \in {"OPERADOR", "OP_SIMBOLO"}
    /\ Emite("OPERADOR", texto)

RamoPontuacao ==
    /\ pc = "run"
    /\ m.tipo \in DOMAIN PONTUACAO
    /\ Emite(m.tipo, texto)

\* the INVALIDO branch without its raise: the loop goes on
RamoINVALIDO_continua == pc = "run" /\ m.tipo = "INVALIDO" /\ Descarta

\* self._avancar(texto) and then raise ErroLexico(..., self.linha, self.coluna)
RamoINVALIDO ==
    /\ pc = "run"
    /\ m.tipo = "INVALIDO"
    /\ Avanca(FALSE)
    /\ erro' = [linha |-> avancar(texto).linha, coluna |-> avancar(texto).coluna]
    /\ pc' = "erro"
    /\ UNCHANGED tokens

\* finditer has no further match: the generator is exhausted
Fim ==
    /\ pc = "run"
    /\ m.tipo = ""
    /\ pc' = "done"
    /\ UNCHANGED <<codigo, pos, linha, coluna, m, tokens, erro, hist>>

Next ==
    \/ RamoESPACO
    \/ RamoNOVA_LINHA
    \/ RamoCOMENTARIO
    \/ RamoPREPROCESSADOR
    \/ RamoSTRING
    \/ RamoCHAR
    \/ RamoFLOAT
    \/ RamoINTEIRO
    \/ RamoID
    \/ RamoOPERADOR
    \/ RamoPontuacao
    \/ RamoINVALIDO
    \/ Fim

Spec == Init /\ [][Next]_vars

\* the loop of analisar always goes on to its next iteration
SpecJusto == InitJusto /\ [][Next]_vars /\ WF_vars(Next)

(***************************************************************************)
(* Vocabulary of the properties.                                           *)
(***************************************************************************)
\* the text of a logged match
TextoDe(h) == SubSeq(codigo, h.ini + 1, h.fim)

\* 1-based line and column of the character at offset p of codigo
LinhaDe(p) == 1 + Cardinality({k \in 1..p : codigo[k] = "\n"})
ColunaDe(p) ==
    LET ns == {k \in 1..p : codigo[k] = "\n"}
    IN  IF ns = {} THEN p + 1
        ELSE p + 1 - (CHOOSE k \in ns : \A j \in ns : j <= k)

\* the cursor line after the i-th iteration
LinhaDepois(i) == IF i < Len(hist) THEN hist[i + 1].linha ELSE linha

\* the 17 output categories
CATEGORIAS ==
    {"PREPROCESSADOR", "STRING", "CHAR", "FLOAT", "INTEIRO",
     "PALAVRA_CHAVE", "ID", "OPERADOR", "PONTO_VIRGULA", "VIRGULA",
     "PAR_ESQ", "PAR_DIR", "CHAVE_ESQ", "CHAVE_DIR", "COLCH_ESQ",
     "COLCH_DIR", "PONTO"}

(***************************************************************************)
(* C1                                                                      *)
(***************************************************************************)
\* the listed operators that stand at offset p
OperadoresEm(p) ==
    {k \in 1..Len(OPERADORES) : Prefixo(OPERADORES[k], codigo, p)}

\* C1: when a listed multi-character operator stands at the cursor, and no
\* longer listed operator does, the iteration emits one OPERADOR token whose
\* text is that whole operator ("<<=" and ">>=" included).
C1_OperadorInteiro ==
    \A i \in 1..Len(hist) :
        \A k \in OperadoresEm(hist[i].ini) :
            (\A j \in OperadoresEm(hist[i].ini) :
                 Len(OPERADORES[j]) <= Len(OPERADORES[k]))
            => /\ hist[i].tok > 0
               /\ tokens[hist[i].tok].tipo = "OPERADOR"
               /\ tokens[hist[i].tok].valor = OPERADORES[k]

(***************************************************************************)
(* C2                                                                      *)
(***************************************************************************)
\* C2: the raised ErroLexico carries the line and the column of the invalid
\* character itself.
C2_ErroNoCaractere ==
    pc = "erro" =>
        /\ erro.linha = LinhaDe(hist[Len(hist)].ini)
        /\ erro.coluna = ColunaDe(hist[Len(hist)].ini)

(***************************************************************************)
(* C3                                                                      *)
(***************************************************************************)
\* C3: at the start of every iteration pos is the start of the match, linha
\* and coluna are the 1-based line and column of offset pos, and every token
\* carries the line and column of the first character of its match.
C3_Cursor ==
    /\ (pc = "run" /\ m.tipo # "") => pos = m.ini
    /\ linha = LinhaDe(pos)
    /\ coluna = ColunaDe(pos)
    /\ \A i \in 1..Len(hist) :
           /\ hist[i].pos = hist[i].ini
           /\ hist[i].tok > 0 =>
                  /\ tokens[hist[i].tok].linha = LinhaDe(hist[i].ini)
                  /\ tokens[hist[i].tok].coluna = ColunaDe(hist[i].ini)

\* a token that starts after a newline and some other character
C3_Witness ==
    \E i \in 1..Len(tokens) : tokens[i].linha = 2 /\ tokens[i].coluna = 2

(***************************************************************************)
(* C4                                                                      *)
(***************************************************************************)
\* token texts and discarded texts concatenated in order, first n iterations
RECURSIVE Reconstrucao(_)
Reconstrucao(n) ==
    IF n = 0 THEN <<>>
    ELSE Reconstrucao(n - 1) \o
           (IF hist[n].tok > 0 THEN tokens[hist[n].tok].valor
            ELSE TextoDe(hist[n]))

\* the 1-based index j of codigo lies in the white space that ends a
\* PREPROCESSADOR match
Aparado(j) ==
    \E i \in 1..Len(hist) :
        /\ hist[i].tipo = "PREPROCESSADOR"
        /\ hist[i].ini < j
        /\ j <= hist[i].fim
        /\ \A k \in j..hist[i].fim : codigo[k] \in EspacoBranco

\* the first n characters of codigo without the trimmed ones
RECURSIVE SemAparados(_)
SemAparados(n) ==
    IF n = 0 THEN <<>>
    ELSE IF Aparado(n) THEN SemAparados(n - 1)
         ELSE Append(SemAparados(n - 1), codigo[n])

\* C4 as stated: a scan without error reconstructs the source character
\* for character.
C4_RoundTrip == pc = "done" => Reconstrucao(Len(hist)) = codigo

\* C4 amended: a scan without error reconstructs the source except for the
\* white space that ends a PREPROCESSADOR match, which is missing; without
\* such white space the reconstruction is exact.
C4_RoundTripAparado ==
    pc = "done" =>
        /\ Reconstrucao(Len(hist)) = SemAparados(Len(codigo))
        /\ (\A j \in 1..Len(codigo) : ~Aparado(j))
               => Reconstrucao(Len(hist)) = codigo

\* a finished scan of a directive that ends in a blank, with more after it
C4_Witness ==
    /\ pc = "done"
    /\ Len(hist) >= 3
    /\ hist[1].tipo = "PREPROCESSADOR"
    /\ TextoDe(hist[1])[Len(TextoDe(hist[1]))] = " "

(***************************************************************************)
(* C5                                                                      *)
(***************************************************************************)
\* C5: the text of a PREPROCESSADOR match has no newline, and the match
\* leaves the line counter as it was.
C5_MesmaLinha ==
    \A i \in 1..Len(hist) :
        hist[i].tipo = "PREPROCESSADOR" =>
            /\ \A k \in 1..Len(TextoDe(hist[i])) : TextoDe(hist[i])[k] # "\n"
            /\ LinhaDepois(i) = hist[i].linha

(***************************************************************************)
(* C6                                                                      *)
(***************************************************************************)
\* s from offset p on is made of blanks, newlines, closed block comments
\* and line comments only
RECURSIVE SoTrivia(_, _)
SoTrivia(s, p) ==
    \/ p = Len(s)
    \/ Ch(s, p) \in {" ", "\t", "\n"} /\ SoTrivia(s, p + 1)
    \/ /\ Prefixo(<<"/", "*">>, s, p)
       /\ \E j \in (p + 2)..(Len(s) - 2) :
              /\ Prefixo(<<"*", "/">>, s, j)
              /\ \A k \in (p + 2)..(j - 1) : ~Prefixo(<<"*", "/">>, s, k)
              /\ SoTrivia(s, j + 2)
    \/ /\ Prefixo(<<"/", "/">>, s, p)
       /\ \E j \in (p + 2)..Len(s) :
              /\ \A k \in (p + 2)..(j - 1) : s[k + 1] # "\n"
              /\ (j = Len(s) \/ s[j + 1] = "\n")
              /\ SoTrivia(s, j)

C7_PalavraChave ==
    \A i \in 1..Len(hist) :
        LET h == hist[i]
            t == TextoDe(h)
        IN  /\ h.tipo = "ID" =>
                /\ t[1] \in Letras
                /\ \A k \in 2..Len(t) : t[k] \in Letras \cup Digitos
                /\ h.tok > 0
                /\ tokens[h.tok].valor = t
                /\ t \in PALAVRAS_RESERVADAS
                       => tokens[h.tok].tipo = "PALAVRA_CHAVE"
                /\ t \notin PALAVRAS_RESERVADAS => tokens[h.tok].tipo = "ID"
            /\ (h.tok > 0 /\ tokens[h.tok].tipo \in {"PALAVRA_CHAVE", "ID"})
                   => h.tipo = "ID"

\* a reserved word and an identifier that begins with a reserved word
C7_Witness ==
    \E i, j \in 1..Len(tokens) :
        /\ tokens[i].tipo = "PALAVRA_CHAVE"
        /\ tokens[i].valor = <<"d", "o">>
        /\ tokens[j].tipo = "ID"
        /\ Len(tokens[j].valor) > 2
        /\ SubSeq(tokens[j].valor, 1, 2) = <<"d", "o">>

(***************************************************************************)
(* C8                                                                      *)
(***************************************************************************)
TodosEm(s, i, j, C) == \A k \in i..(j - 1) : s[k + 1] \in C

\* offsets i..j-1 of s: digits around one ".", with at least one digit
EhMantissa(s, i, j) ==
    /\ j - i >= 2
    /\ \E d \in i..(j - 1) :
           /\ s[d + 1] = "."
           /\ TodosEm(s, i, d, Digitos)
           /\ TodosEm(s, d + 1, j, Digitos)

\* offsets i..j-1 of s: nothing, or e/E, an optional sign and digits
EhExpoente(s, i, j) ==
    \/ i = j
    \/ /\ Ch(s, i) \in {"e", "E"}
       /\ \E x \in {i + 1, i + 2} :
              /\ x = i + 2 => Ch(s, i + 1) \in {"+", "-"}
              /\ x < j
              /\ TodosEm(s, x, j, Digitos)

\* the float literals of the claim
EhFloat(s) ==
    \E a, b \in 0..Len(s) :
        /\ a <= b
        /\ EhMantissa(s, 0, a)
        /\ EhExpoente(s, a, b)
        /\ b = Len(s) \/ (b + 1 = Len(s) /\ s[b + 1] \in {"f", "F", "l", "L"})

\* the integer literals of the claim
EhInteiro(s) ==
    \E d \in 1..Len(s) :
        /\ TodosEm(s, 0, d, Digitos)
        /\ TodosEm(s, d, Len(s), {"u", "U", "l", "L"})

UmToken(tipo) ==
    /\ pc # "erro"
    /\ hist # <<>> => hist[1].tipo = tipo /\ hist[1].fim = Len(codigo)
    /\ pc = "done" =>
           tokens = <<[tipo |-> tipo, valor |-> codigo,
                       linha |-> 1, coluna |-> 1]>>

\* C8: a source that is one float literal yields exactly one FLOAT token
\* covering it, a source that is one integer literal exactly one INTEIRO
\* token covering it, and no INTEIRO match made of digits only is followed
\* by a ".".
C8_Numeros ==
    /\ EhFloat(codigo) => UmToken("FLOAT")
    /\ EhInteiro(codigo) => UmToken("INTEIRO")
    /\ \A i \in 1..Len(hist) :
           (hist[i].tipo = "INTEIRO" /\ Ch(codigo, hist[i].fim) = ".")
               => ~TodosEm(codigo, hist[i].ini, hist[i].fim, Digitos)

\* a finished scan of a float literal with fraction, exponent and suffix
C8_Witness ==
    /\ pc = "done"
    /\ EhFloat(codigo)
    /\ Len(tokens) = 1
    /\ codigo[Len(codigo)] = "f"
    /\ \E k \in 1..Len(codigo) : codigo[k] = "e"

(***************************************************************************)
(* C9                                                                      *)
(***************************************************************************)
\* the iterations so far cover codigo from offset 0 with no gap, each match
\* is not empty, and the tokens are those of the emitting iterations, in
\* order
EmOrdem ==
    /\ \A i \in 1..Len(hist) :
           /\ hist[i].ini = (IF i = 1 THEN 0 ELSE hist[i - 1].fim)
           /\ hist[i].fim > hist[i].ini
           /\ (hist[i].tok > 0) = (hist[i].tipo \notin
                  {"ESPACO", "NOVA_LINHA", "COMENTARIO_ML", "COMENTARIO_SL",
                   "INVALIDO"})
           /\ hist[i].tok > 0 =>
                  hist[i].tok = 1 + Cardinality({j \in 1..(i - 1) :
                                                     hist[j].tok > 0})
    /\ Len(tokens) = Cardinality({j \in 1..Len(hist) : hist[j].tok > 0})
    /\ \A i, j \in 1..Len(tokens) :
           i < j => \/ tokens[i].linha < tokens[j].linha
                    \/ /\ tokens[i].linha = tokens[j].linha
                       /\ tokens[i].coluna < tokens[j].coluna

FimDaVarredura ==
    /\ pc = "done" =>
           /\ pos = Len(codigo)
           /\ erro = SemErro
           /\ \A i \in 1..Len(hist) : hist[i].tipo # "INVALIDO"
    /\ pc = "erro" =>
           /\ hist # <<>>
           /\ \A i \in 1..Len(hist) :
                  (hist[i].tipo = "INVALIDO") = (i = Len(hist))
           /\ erro # SemErro
    /\ pc = "run" => \A i \in 1..Len(hist) : hist[i].tipo # "INVALIDO"

\* C9: every scan ends, either at the end of the input without error or with
\* ErroLexico at the first match of the fallback rule; every iteration
\* consumes at least one character, the tokens of the matches before the
\* error are produced in source order, and none is produced after it.
C9_Termina ==
    /\ <>(pc \in {"done", "erro"})
    /\ [](EmOrdem /\ FimDaVarredura)
    /\ [][/\ pc' # "done" => pos' > pos
          /\ pc = "erro" => tokens' = tokens
          /\ tokens' = tokens \/ (/\ Len(tokens') = Len(tokens) + 1
                                   /\ SubSeq(tokens', 1, Len(tokens)) = tokens)
         ]_vars

\* an error raised after two tokens
C9_Witness == pc = "erro" /\ Len(tokens) >= 2

(***************************************************************************)
(* C10                                                                     *)
(***************************************************************************)
\* an opening quote at offset p with no closing quote after it, or a "/*" at
\* offset p with no "*/" after it
SemFecho(p) ==
    \/ /\ Ch(codigo, p) \in {"\"", "'"}
       /\ \A k \in (p + 1)..(Len(codigo) - 1) : Ch(codigo, k) # Ch(codigo, p)
    \/ /\ Prefixo(<<"/", "*">>, codigo, p)
       /\ \A k \in (p + 2)..(Len(codigo) - 2) :
              ~Prefixo(<<"*", "/">>, codigo, k)

\* C10: a scan never completes without error after yielding a token for the
\* opener of an unterminated string, character literal or block comment.
C10_NaoTerminado ==
    pc = "done" =>
        \A i \in 1..Len(hist) : SemFecho(hist[i].ini) => hist[i].tok = 0

=============================================================================
